---- MODULE Spec2Model ----
(***************************************************************************)
(* CloudTrace backend (01-cloudtrace-load-balanced-app/backend/server.js): *)
(* the request dispatcher, the log-write handler, the persistence gateway  *)
(* writeRequestToDatabase with its retry loop, the liveness probes, the    *)
(* connection pool and the request_logs table with its UNIQUE constraint.  *)
(* Every await of the code is a point where other requests may run, so     *)
(* each action is the synchronous stretch of code between two awaits.      *)
(***************************************************************************)
EXTENDS Integers, Sequences, FiniteSets, TLC

\* ---------------------------------------------------------------- bounds
NumReqs == 2        \* HTTP requests handled concurrently by this process
NumSolo == 1        \* requests handled when a call is studied on its own
NumIds == 2         \* distinct values crypto.randomUUID() can return

Reqs == 1..NumReqs
Solo == 1..NumSolo
Ids == 1..NumIds
MaxCalls == 2       \* frontend: invocations of sendRequest suspended at a time
MaxLog == 3         \* frontend: entries the requests array is followed up to

\* ------------------------------------------------------ program constants
PoolMax == 10                       \* new Pool({ max: 10 })
Retries == 3                        \* writeRequestToDatabase(..., retries = 3)
backoffMs == <<100, 200, 400>>      \* const backoffMs = [100, 200, 400]
FallbackDelayMs == 400              \* backoffMs[attempt] || 400
SERVER_HOSTNAME == "this-instance"  \* os.hostname(), read once
OTHER_HOSTNAME == "other-instance"  \* another instance writing the same table

Methods == {"GET", "POST", "OPTIONS", "PUT"}
Paths == {"/", "/api/request", "/health", "/other"}

Calls == 1..MaxCalls                         \* invocations of sendRequest
Hosts == {SERVER_HOSTNAME, OTHER_HOSTNAME}   \* server_hostname of a response
UrlValues == {"", "http://alb/api/request"}  \* backendUrlInput.value.trim()
Keys == {"Enter", "a"}                       \* e.key of a keypress event

\* ------------------------------------------------------------------ errors
\* An error object as the catch block sees it: error.code ("" when the
\* object has no code) and whether error.message includes 'duplicate key'.
Err(code, dup) == [code |-> code, dup |-> dup]
NoError == Err("none", FALSE)

UniqueViolation == Err("23505", TRUE)     \* raised by the UNIQUE constraint
\* variant of AcquireTimeoutErrors: a pool without connectionTimeoutMillis
AcquireNeverTimesOut == {}

\* dbPool.connect() gives up after the 60 s connectionTimeoutMillis with an
\* Error that has no code
AcquireTimeoutErrors == {Err("", FALSE)}

\* dbPool.connect() rejects: connection refused, or the timeout elapsed
ConnectErrors == {Err("ECONNREFUSED", FALSE)} \cup AcquireTimeoutErrors
\* client.query() rejects: connection reset, or the 60 s statement_timeout
\* cancelled the statement (57014 query_canceled)
QueryErrors == {Err("ECONNRESET", FALSE), Err("57014", FALSE)}
\* COMMIT was applied by the server but its acknowledgement never arrived
AckLostErrors == {Err("08007", FALSE)}

\* an error that passes both tests of the catch block: a code of the
\* transient list and a message that includes 'duplicate key'
AmbiguousErrors == {Err("08006", TRUE)}

TransientCodes ==
    {"ECONNRESET", "ETIMEDOUT", "ECONNREFUSED", "57P01", "57P02", "57P03",
     "08003", "08006", "08001", "08004", "08007"}

\* variant of isDuplicateKey: the transient test taking precedence
isDuplicateKeyUnlessTransient(error) ==
    (error.code = "23505" \/ error.dup) /\ error.code \notin TransientCodes

isDuplicateKey(error) == error.code = "23505" \/ error.dup

isTransientError(error) == error.code \in TransientCodes

\* the three-way taxonomy the catch block implements: "collision",
\* "transient" or "permanent"
ErrorKind(error) ==
    IF error.code = "23505" \/ error.dup THEN "collision"
    ELSE IF error.code \in TransientCodes THEN "transient"
    ELSE "permanent"

\* return value of a successful call
SuccessResult == [success |-> TRUE, error |-> "null"]
\* return value after a duplicate key
CollisionResult == [success |-> FALSE, error |-> "UUID_COLLISION"]
\* return value after a permanent error or the last transient one
FailureResult(error) ==
    [success |-> FALSE, error |-> IF error.code = "" THEN "UNKNOWN" ELSE error.code]
NoResult == [success |-> FALSE, error |-> "pending"]

\* variants of Delay: the schedule read one entry too far, and a flat delay
DelayFromNextEntry(attemptIdx) ==
    IF attemptIdx + 2 \in DOMAIN backoffMs THEN backoffMs[attemptIdx + 2]
    ELSE FallbackDelayMs

DelayFirstEntry(attemptIdx) == backoffMs[1]

\* the delay slept after the failure of the attempt with this 0-based index
Delay(attemptIdx) ==
    IF attemptIdx + 1 \in DOMAIN backoffMs THEN backoffMs[attemptIdx + 1]
    ELSE FallbackDelayMs

\* variants of ShouldRetry: one attempt too many, and every error retried
ShouldRetryOneMore(error, attemptIdx) ==
    isTransientError(error) /\ attemptIdx < Retries

ShouldRetryAnyError(error, attemptIdx) == attemptIdx < Retries - 1

\* variant of ShouldRetry: the gateway without its retry loop
ShouldRetryNever(error, attemptIdx) == FALSE

\* the retry condition of the catch block
ShouldRetry(error, attemptIdx) ==
    isTransientError(error) /\ attemptIdx < Retries - 1

\* variant of RollbackSettles: the ROLLBACK awaited without a try of its own
RollbackSettlesOnlyIfOk(rollbackOk) == rollbackOk

\* try { await client.query('ROLLBACK') } catch (rollbackError) { log }:
\* the catch block goes on after the ROLLBACK whether it resolved or rejected
RollbackSettles(rollbackOk) == TRUE

\* variant of CatchReleases: the release sits inside the inner try
CatchReleasesAfterRollback(rollbackOk) == rollbackOk

\* the catch block releases the client after the ROLLBACK, whether the
\* ROLLBACK resolved or rejected (the release is outside the inner try)
CatchReleases(rollbackOk) == TRUE

\* variant of LogWriteStatus: a failed write answered with a server error
LogWriteStatusByOutcome(result) == IF result.success THEN 200 ELSE 500

\* status of the log-write response
LogWriteStatus(result) == 200

\* --------------------------------------------------------------- dispatcher
\* variants of Route: unknown paths rejected before the method is looked
\* at, and /health served for every method
RoutePathFirst(method, path) ==
    IF path \notin {"/", "/api/request", "/health"} THEN "notfound"
    ELSE IF method = "OPTIONS" THEN "options"
    ELSE IF path = "/health" /\ method = "GET" THEN "health"
    ELSE IF (path = "/" \/ path = "/api/request") /\ (method = "GET" \/ method = "POST")
         THEN "log"
    ELSE "notfound"

RouteHealthAnyMethod(method, path) ==
    IF method = "OPTIONS" THEN "options"
    ELSE IF path = "/health" THEN "health"
    ELSE IF (path = "/" \/ path = "/api/request") /\ (method = "GET" \/ method = "POST")
         THEN "log"
    ELSE "notfound"

\* the if-chain of the createServer callback
Route(method, path) ==
    IF method = "OPTIONS" THEN "options"
    ELSE IF path = "/health" /\ method = "GET" THEN "health"
    ELSE IF (path = "/" \/ path = "/api/request") /\ (method = "GET" \/ method = "POST")
         THEN "log"
    ELSE "notfound"

\* ------------------------------------------------------------- handleRequest
\* variant of RetriesCollision: the collision retried in a loop
RetriesEveryCollision(calls) == calls >= 1

\* if (!dbResult.success && dbResult.error === 'UUID_COLLISION') after the
\* first call only: the statement is an if, not a loop
RetriesCollision(calls) == calls = 1

\* variant of SecondCallEntry: a backoff timer set before the second call
SecondCallAfterBackoff == "sleep"

\* where handleRequest is suspended once it has entered its second call:
\* the dbPool.connect() of the call's first attempt, with no timer before it
SecondCallEntry == "connect"

\* ---------------------------------------------------------------- responses
CorsHeaders ==
    {"Access-Control-Allow-Origin", "Access-Control-Allow-Methods",
     "Access-Control-Allow-Headers"}
\* headers of the log-write response
LogHeaders == {"Content-Type"} \cup CorsHeaders
\* headers of the health response
HealthHeaders == {"Content-Type", "Access-Control-Allow-Origin"}
\* headers of the 404 and of the 500 response
ErrorHeaders == {"Content-Type"}

NoBody == [kind |-> "none"]                      \* res.end not called yet
EmptyBody == [kind |-> "empty"]                  \* res.end()
ErrorBody(msg) == [kind |-> "json", error |-> msg]
\* healthData
HealthBody(dbHealthy) ==
    [kind |-> "json",
     status |-> IF dbHealthy THEN "healthy" ELSE "unhealthy",
     database |-> IF dbHealthy THEN "connected" ELSE "disconnected"]
\* timestamp.toISOString(): the text form of a Date, one text per instant
toISOString(ts) == <<"ISO", ts>>

\* req.headers['x-forwarded-for'] of request r: the first request comes
\* through the load balancer, the others have no such header
XForwardedFor(r) == IF r = 1 THEN "203.0.113.7" ELSE "undefined"

\* req.connection.remoteAddress of request r
RemoteAddress(r) == IF r = 1 THEN "10.0.0.1" ELSE "10.0.0.2"

\* const clientIp = x-forwarded-for || remoteAddress || 'unknown'
clientIp(r) ==
    IF XForwardedFor(r) # "undefined" THEN XForwardedFor(r)
    ELSE IF RemoteAddress(r) # "undefined" THEN RemoteAddress(r)
    ELSE "unknown"

\* variant of LogBody: the timestamp read again when the response is built
LogBodyFreshTimestamp(id, ts, ip, result) ==
    [kind |-> "json", request_id |-> id, server_hostname |-> SERVER_HOSTNAME,
     timestamp |-> toISOString(ts + 1), client_ip |-> ip,
     db_status |-> IF result.success THEN "success" ELSE "failed",
     db_error |-> IF result.error = "null" THEN "absent" ELSE "present"]

\* variant of LogBody: db_error always part of the body
LogBodyErrorAlways(id, ts, ip, result) ==
    [kind |-> "json", request_id |-> id, server_hostname |-> SERVER_HOSTNAME,
     timestamp |-> toISOString(ts), client_ip |-> ip,
     db_status |-> IF result.success THEN "success" ELSE "failed",
     db_error |-> "present"]

\* responseData: db_error is spread in only when dbResult.error is truthy
LogBody(id, ts, ip, result) ==
    [kind |-> "json", request_id |-> id, server_hostname |-> SERVER_HOSTNAME,
     timestamp |-> toISOString(ts), client_ip |-> ip,
     db_status |-> IF result.success THEN "success" ELSE "failed",
     db_error |-> IF result.error = "null" THEN "absent" ELSE "present"]

\* variant of HealthStatus: the probe's outcome ignored
HealthStatusAlwaysUp(dbHealthy) == IF dbHealthy THEN 200 ELSE 200

\* const statusCode = dbHealthy ? 200 : 503
HealthStatus(dbHealthy) == IF dbHealthy THEN 200 ELSE 503

\* variant of ListenAfterProbe: startup abandoned when the probe fails
ListenOnlyIfProbeOk(probeOk) == probeOk

\* startServer: await checkDatabaseConnection(); server.listen(...) with the
\* probe's return value ignored
ListenAfterProbe(probeOk) == TRUE

\* -------------------------------------------------------------------- store
Row(id, host, ts, ip) ==
    [request_id |-> id, server_hostname |-> host, timestamp |-> ts, client_ip |-> ip]

\* variant of AttemptTimestamp: the time read again by each attempt
AttemptTimestampFresh(ts, attemptIdx) == ts + attemptIdx

\* the timestamp parameter of the INSERT of an attempt: the Date handleRequest
\* passed to the call, the same object on every pass of the loop
AttemptTimestamp(ts, attemptIdx) == ts

\* variant of UniqueViolated: the column without its UNIQUE constraint
NoUniqueConstraint(id, committed) == FALSE

\* request_id VARCHAR(36) NOT NULL UNIQUE: an INSERT of id is rejected when a
\* committed row already carries it
UniqueViolated(id, committed) == \E row \in committed : row.request_id = id

\* variant of AfterRollback: the catch block undoing the write by a delete
AfterRollbackDeletes(committed, id) == {row \in committed : row.request_id # id}

\* ROLLBACK discards the open transaction of the connection only: the
\* committed rows stay as they are
AfterRollback(committed, id) == committed

VARIABLES
    listening,     \* server.listen() has been called
    startPc,       \* checkDatabaseConnection: "connect", "query", "done"
    startClient,   \* its client: "null", "held", "released"
    checkedOut,    \* clients the pool has handed out and not got back
    rows,          \* committed rows of request_logs
    pending,       \* pending[r]: id inserted in r's open transaction, 0 if none
    clock,         \* server clock, one tick per log-write request received
    pc,            \* pc[r]: the await request r is suspended at
    route,         \* route[r]: routing branch taken for r
    requestId,     \* handleRequest: let requestId
    timestamp,     \* handleRequest: const timestamp
    callNo,        \* number of writeRequestToDatabase calls made for r
    attempt,       \* writeRequestToDatabase: loop variable attempt
    client,        \* client of the current attempt or probe: "null", "held", "released"
    caught,        \* error caught by the current attempt's catch block
    rollback,      \* ROLLBACK of the current attempt: "none", "ok", "failed"
    dbResult,      \* handleRequest: let dbResult
    statusCode,    \* status written by res.writeHead, 0 before the response
    delays,        \* delays passed to setTimeout by the current call
    tries,         \* kind of the error each failed attempt of the current call caught
    callIds,       \* identifiers passed to the calls made for r
    headers,       \* headers[r]: names of the headers given to res.writeHead
    body,          \* body[r]: what res.end was given
    phase,         \* the process: "running", "closing", "exited", "crashed"
    fault,         \* fault[r]: "none", "caught" by the dispatcher, or "uncaught"
    reqMethod,     \* req.method of request r, kept where routing is studied
    reqPath,       \* url.pathname of request r, kept where routing is studied
    btnDisabled,   \* frontend: sendRequestBtn.disabled
    backendUrl,    \* frontend: backendUrlInput.value.trim()
    sendPc,        \* frontend: the await each sendRequest invocation is suspended at
    requests,      \* frontend: let requests, newest entry first
    servers        \* frontend: let servers, request count per server hostname

storeVars == <<rows, pending>>
startVars == <<listening, startPc, startClient>>
resVars == <<statusCode, headers, body>>
handlerVars == <<pc, requestId, callNo, attempt, dbResult, resVars, delays, tries, callIds>>
lifeVars == <<phase, fault>>
reqVars == <<reqMethod, reqPath>>
frontVars == <<btnDisabled, backendUrl, sendPc, requests, servers>>
attemptVars == <<client, caught, rollback>>
requestVars == <<handlerVars, attemptVars, route, timestamp>>
serverVars == <<listening, startPc, startClient, checkedOut, rows, pending, clock,
                pc, route, requestId, timestamp, callNo, attempt, client, caught,
                rollback, dbResult, statusCode, delays, tries, callIds, headers,
                body, phase, fault, reqMethod, reqPath>>
vars == <<serverVars, frontVars>>

\* the page as the script leaves it once loaded: button enabled, no
\* invocation of sendRequest running, requests = [] and servers = new Map()
InitFront ==
    /\ btnDisabled = FALSE
    /\ backendUrl = ""
    /\ sendPc = [c \in Calls |-> "idle"]
    /\ requests = <<>>
    /\ servers = [h \in Hosts |-> 0]

\* the process has neither exited nor crashed
Alive == phase \in {"running", "closing"}

\* what dbPool.connect() can reject with when n clients are out: once
\* dbPool.end() has been called every connect is rejected at once with an
\* Error without a code; while all max clients are out the pool opens no
\* connection, so the wait can only time out
ConnectRejections(ph, n) ==
    IF ph = "closing" THEN {Err("", FALSE)}
    ELSE IF n >= PoolMax THEN AcquireTimeoutErrors
    ELSE ConnectErrors

\* variant of PoolHasFree: a pool without its max
PoolHasFreeNoMax(n, ph) == ph = "running"

\* the pool hands out a client only while fewer than max are checked out
\* and dbPool.end() has not been called
PoolHasFree(n, ph) == n < PoolMax /\ ph = "running"

Init ==
    /\ InitFront
    /\ listening = FALSE
    /\ startPc = "connect"
    /\ startClient = "null"
    /\ checkedOut = 0
    /\ rows = {}
    /\ pending = [r \in Reqs |-> 0]
    /\ clock = 0
    /\ pc = [r \in Reqs |-> "idle"]
    /\ route = [r \in Reqs |-> "none"]
    /\ requestId = [r \in Reqs |-> 0]
    /\ timestamp = [r \in Reqs |-> 0]
    /\ callNo = [r \in Reqs |-> 0]
    /\ attempt = [r \in Reqs |-> 0]
    /\ client = [r \in Reqs |-> "null"]
    /\ caught = [r \in Reqs |-> NoError]
    /\ rollback = [r \in Reqs |-> "none"]
    /\ dbResult = [r \in Reqs |-> NoResult]
    /\ statusCode = [r \in Reqs |-> 0]
    /\ delays = [r \in Reqs |-> <<>>]
    /\ tries = [r \in Reqs |-> <<>>]
    /\ callIds = [r \in Reqs |-> <<>>]
    /\ headers = [r \in Reqs |-> {}]
    /\ body = [r \in Reqs |-> NoBody]
    /\ phase = "running"
    /\ fault = [r \in Reqs |-> "none"]
    /\ reqMethod = [r \in Reqs |-> "none"]
    /\ reqPath = [r \in Reqs |-> "none"]

\* ------------------------------------------------------------ handleRequest
\* writeRequestToDatabase has returned result to handleRequest, which runs
\* on without an await: on the first call's UUID_COLLISION it generates a new
\* identifier and enters the second call (let client = null, suspended at
\* dbPool.connect()); otherwise it writes the response. cl, rb, error and tr
\* are what the returning attempt leaves behind: its client, the outcome of
\* its ROLLBACK, the error it caught and the kinds of the call's failures.
Return(r, result, cl, rb, error, tr) ==
    /\ dbResult' = [dbResult EXCEPT ![r] = result]
    /\ IF ~result.success /\ result.error = "UUID_COLLISION" /\ RetriesCollision(callNo[r])
       THEN \E id \in Ids :
              /\ requestId' = [requestId EXCEPT ![r] = id]
              /\ callIds' = [callIds EXCEPT ![r] = Append(@, id)]
              /\ callNo' = [callNo EXCEPT ![r] = @ + 1]
              /\ attempt' = [attempt EXCEPT ![r] = 0]
              /\ delays' = [delays EXCEPT ![r] = <<>>]
              /\ tries' = [tries EXCEPT ![r] = <<>>]
              /\ client' = [client EXCEPT ![r] = "null"]
              /\ rollback' = [rollback EXCEPT ![r] = "none"]
              /\ caught' = [caught EXCEPT ![r] = NoError]
              /\ pc' = [pc EXCEPT ![r] = SecondCallEntry]
              /\ UNCHANGED resVars
       ELSE /\ statusCode' = [statusCode EXCEPT ![r] = LogWriteStatus(result)]
            /\ headers' = [headers EXCEPT ![r] = LogHeaders]
            /\ body' = [body EXCEPT ![r] = LogBody(requestId[r], timestamp[r], clientIp(r), result)]
            /\ client' = [client EXCEPT ![r] = cl]
            /\ rollback' = [rollback EXCEPT ![r] = rb]
            /\ caught' = [caught EXCEPT ![r] = error]
            /\ tries' = [tries EXCEPT ![r] = tr]
            /\ pc' = [pc EXCEPT ![r] = "done"]
            /\ UNCHANGED <<requestId, callIds, callNo, attempt, delays>>

\* The catch block after the rollback and the release: classify the error,
\* then return the collision, schedule the backoff timer, or return the failure.
Classify(r, error, cl, rb) ==
    LET tr == Append(tries[r], ErrorKind(error)) IN
    IF isDuplicateKey(error) THEN Return(r, CollisionResult, cl, rb, error, tr)
    ELSE IF ShouldRetry(error, attempt[r])
    THEN /\ delays' = [delays EXCEPT ![r] = Append(@, Delay(attempt[r]))]
         /\ tries' = [tries EXCEPT ![r] = tr]
         /\ client' = [client EXCEPT ![r] = cl]
         /\ rollback' = [rollback EXCEPT ![r] = rb]
         /\ caught' = [caught EXCEPT ![r] = NoError]
         /\ pc' = [pc EXCEPT ![r] = "sleep"]
         /\ UNCHANGED <<requestId, callNo, attempt, dbResult, resVars, callIds>>
    ELSE Return(r, FailureResult(error), cl, rb, error, tr)

\* createServer callback, log-write branch, and handleRequest up to its first
\* await: identifier, timestamp, first gateway call entered.
RequestStartOn(r, method, path) ==
    /\ Alive /\ listening /\ pc[r] = "idle"
    /\ Route(method, path) = "log"
    /\ \E id \in Ids :
         /\ requestId' = [requestId EXCEPT ![r] = id]
         /\ callIds' = [callIds EXCEPT ![r] = <<id>>]
    /\ clock' = clock + 1
    /\ timestamp' = [timestamp EXCEPT ![r] = clock + 1]
    /\ route' = [route EXCEPT ![r] = "log"]
    /\ callNo' = [callNo EXCEPT ![r] = 1]
    /\ pc' = [pc EXCEPT ![r] = "connect"]
    /\ UNCHANGED <<startVars, checkedOut, storeVars, attempt, attemptVars,
                   dbResult, resVars, delays, tries, lifeVars>>

RequestStart(r) ==
    \E method \in Methods, path \in Paths :
        RequestStartOn(r, method, path) /\ UNCHANGED <<reqVars, frontVars>>

\* ---------------------------------------------------- writeRequestToDatabase
\* client = await dbPool.connect(); a rejection is caught with client still
\* null, so the catch block has nothing to roll back or release
Connect(r) ==
    /\ Alive
    /\ pc[r] = "connect"
    /\ \/ /\ PoolHasFree(checkedOut, phase)
          /\ checkedOut' = checkedOut + 1
          /\ client' = [client EXCEPT ![r] = "held"]
          /\ pc' = [pc EXCEPT ![r] = "begin"]
          /\ UNCHANGED <<rollback, caught, requestId, callNo, attempt, dbResult,
                         resVars, delays, tries, callIds>>
       \/ \E error \in ConnectRejections(phase, checkedOut) :
            /\ Classify(r, error, "null", "none")
            /\ UNCHANGED checkedOut
    /\ UNCHANGED <<startVars, storeVars, clock, route, timestamp>>
    /\ UNCHANGED <<lifeVars, reqVars, frontVars>>

\* await client.query('BEGIN')
Begin(r) ==
    /\ Alive
    /\ pc[r] = "begin"
    /\ \/ /\ pc' = [pc EXCEPT ![r] = "insert"]
          /\ UNCHANGED caught
       \/ \E error \in QueryErrors :
            /\ caught' = [caught EXCEPT ![r] = error]
            /\ pc' = [pc EXCEPT ![r] = "rollback"]
    /\ UNCHANGED <<startVars, checkedOut, storeVars, clock, route, requestId,
                   timestamp, callNo, attempt, client, rollback, dbResult,
                   resVars, delays, tries, callIds>>
    /\ UNCHANGED <<lifeVars, reqVars, frontVars>>

\* await client.query('INSERT INTO request_logs ...'): rejected with 23505 when
\* a committed row carries the identifier, blocked while another open
\* transaction has inserted it, and otherwise the row joins this transaction.
Insert(r) ==
    /\ Alive
    /\ pc[r] = "insert"
    /\ \/ /\ UniqueViolated(requestId[r], rows)
          /\ caught' = [caught EXCEPT ![r] = UniqueViolation]
          /\ pc' = [pc EXCEPT ![r] = "rollback"]
          /\ UNCHANGED pending
       \/ /\ ~UniqueViolated(requestId[r], rows)
          /\ \A q \in Reqs \ {r} : pending[q] # requestId[r]
          /\ pending' = [pending EXCEPT ![r] = requestId[r]]
          /\ pc' = [pc EXCEPT ![r] = "commit"]
          /\ UNCHANGED caught
       \/ \E error \in QueryErrors :
            /\ caught' = [caught EXCEPT ![r] = error]
            /\ pc' = [pc EXCEPT ![r] = "rollback"]
            /\ UNCHANGED pending
    /\ UNCHANGED <<startVars, checkedOut, rows, clock, route, requestId,
                   timestamp, callNo, attempt, client, rollback, dbResult,
                   resVars, delays, tries, callIds>>
    /\ UNCHANGED <<lifeVars, reqVars, frontVars>>

\* the INSERT rejected with an error that passes both tests of the catch block
InsertAmbiguous(r) ==
    /\ Alive
    /\ pc[r] = "insert"
    /\ \E error \in AmbiguousErrors :
         caught' = [caught EXCEPT ![r] = error]
    /\ pc' = [pc EXCEPT ![r] = "rollback"]
    /\ UNCHANGED <<startVars, checkedOut, storeVars, clock, route, requestId,
                   timestamp, callNo, attempt, client, rollback, dbResult,
                   resVars, delays, tries, callIds>>
    /\ UNCHANGED <<lifeVars, reqVars, frontVars>>

\* await client.query('COMMIT'); client.release(); return success. The COMMIT
\* can also be rejected before the server applied it, or be applied with its
\* acknowledgement lost on the way back.
Commit(r) ==
    /\ Alive
    /\ pc[r] = "commit"
    /\ \/ /\ rows' = rows \cup {Row(pending[r], SERVER_HOSTNAME,
                  AttemptTimestamp(timestamp[r], attempt[r]), clientIp(r))}
          /\ pending' = [pending EXCEPT ![r] = 0]
          /\ checkedOut' = checkedOut - 1
          /\ Return(r, SuccessResult, "released", "none", NoError, tries[r])
       \/ \E error \in QueryErrors :
            /\ caught' = [caught EXCEPT ![r] = error]
            /\ pc' = [pc EXCEPT ![r] = "rollback"]
            /\ UNCHANGED <<rows, pending, checkedOut, client, rollback, requestId,
                           callNo, attempt, dbResult, resVars, delays, tries, callIds>>
       \/ \E error \in AckLostErrors :
            /\ rows' = rows \cup {Row(pending[r], SERVER_HOSTNAME,
                  AttemptTimestamp(timestamp[r], attempt[r]), clientIp(r))}
            /\ pending' = [pending EXCEPT ![r] = 0]
            /\ caught' = [caught EXCEPT ![r] = error]
            /\ pc' = [pc EXCEPT ![r] = "rollback"]
            /\ UNCHANGED <<checkedOut, client, rollback, requestId, callNo, attempt,
                           dbResult, resVars, delays, tries, callIds>>
    /\ UNCHANGED <<startVars, clock, route, timestamp>>
    /\ UNCHANGED <<lifeVars, reqVars, frontVars>>

\* catch block: await client.query('ROLLBACK') resolves or rejects (the
\* rejection is logged and swallowed), client.release(), then the error is
\* classified. Either way the server has discarded the open transaction.
Rollback(r) ==
    /\ Alive
    /\ pc[r] = "rollback"
    /\ \E rollbackOk \in BOOLEAN :
         IF ~RollbackSettles(rollbackOk)
         THEN \* the rejection leaves writeRequestToDatabase and handleRequest
              \* and lands in the catch of the createServer callback
              /\ statusCode' = [statusCode EXCEPT ![r] = 500]
              /\ headers' = [headers EXCEPT ![r] = ErrorHeaders]
              /\ body' = [body EXCEPT ![r] = ErrorBody("Internal server error")]
              /\ fault' = [fault EXCEPT ![r] = "caught"]
              /\ rollback' = [rollback EXCEPT ![r] = "failed"]
              /\ pc' = [pc EXCEPT ![r] = "done"]
              /\ UNCHANGED <<checkedOut, client, caught, requestId, callNo, attempt,
                             dbResult, delays, tries, callIds, phase>>
         ELSE IF CatchReleases(rollbackOk)
         THEN /\ checkedOut' = checkedOut - 1
              /\ Classify(r, caught[r], "released",
                          IF rollbackOk THEN "ok" ELSE "failed")
              /\ UNCHANGED lifeVars
         ELSE /\ UNCHANGED checkedOut
              /\ Classify(r, caught[r], "held",
                          IF rollbackOk THEN "ok" ELSE "failed")
              /\ UNCHANGED lifeVars
    /\ pending' = [pending EXCEPT ![r] = 0]
    /\ rows' = AfterRollback(rows, requestId[r])
    /\ UNCHANGED <<startVars, clock, route, timestamp>>
    /\ UNCHANGED <<reqVars, frontVars>>

\* the backoff timer fires: continue, attempt++, let client = null, and the
\* next attempt is suspended at dbPool.connect()
Sleep(r) ==
    /\ Alive
    /\ pc[r] = "sleep"
    /\ attempt' = [attempt EXCEPT ![r] = @ + 1]
    /\ client' = [client EXCEPT ![r] = "null"]
    /\ rollback' = [rollback EXCEPT ![r] = "none"]
    /\ pc' = [pc EXCEPT ![r] = "connect"]
    /\ UNCHANGED <<startVars, checkedOut, storeVars, clock, route, requestId,
                   timestamp, callNo, caught, dbResult, resVars, delays, tries, callIds>>
    /\ UNCHANGED <<lifeVars, reqVars, frontVars>>

\* ---------------------------------------------------------- handleHealthCheck
\* createServer callback, GET /health: handleHealthCheck suspended at
\* dbPool.connect()
HealthStartOn(r, method, path) ==
    /\ Alive /\ listening /\ pc[r] = "idle"
    /\ Route(method, path) = "health"
    /\ route' = [route EXCEPT ![r] = "health"]
    /\ pc' = [pc EXCEPT ![r] = "hconnect"]
    /\ UNCHANGED <<startVars, checkedOut, storeVars, clock, requestId, timestamp,
                   callNo, attempt, attemptVars, dbResult, resVars, delays, tries,
                   callIds, lifeVars>>

HealthStart(r) ==
    \E method \in Methods, path \in Paths :
        HealthStartOn(r, method, path) /\ UNCHANGED <<reqVars, frontVars>>

\* const client = await dbPool.connect(); a rejection lands in the empty
\* catch and the 503 is written
HealthConnect(r) ==
    /\ Alive
    /\ pc[r] = "hconnect"
    /\ \/ /\ PoolHasFree(checkedOut, phase)
          /\ checkedOut' = checkedOut + 1
          /\ client' = [client EXCEPT ![r] = "held"]
          /\ pc' = [pc EXCEPT ![r] = "hquery"]
          /\ UNCHANGED <<caught, resVars>>
       \/ /\ \E error \in ConnectRejections(phase, checkedOut) : TRUE
          /\ statusCode' = [statusCode EXCEPT ![r] = HealthStatus(FALSE)]
          /\ headers' = [headers EXCEPT ![r] = HealthHeaders]
          /\ body' = [body EXCEPT ![r] = HealthBody(FALSE)]
          /\ pc' = [pc EXCEPT ![r] = "done"]
          /\ UNCHANGED <<checkedOut, client, caught>>
    /\ UNCHANGED <<startVars, storeVars, clock, route, requestId, timestamp, callNo,
                   attempt, rollback, dbResult, delays, tries, callIds>>
    /\ UNCHANGED <<lifeVars, reqVars, frontVars>>

\* await client.query('SELECT 1'); client.release(); dbHealthy = true. A
\* rejection of the query jumps over the release into the empty catch.
HealthQuery(r) ==
    /\ Alive
    /\ pc[r] = "hquery"
    /\ \/ /\ checkedOut' = checkedOut - 1
          /\ client' = [client EXCEPT ![r] = "released"]
          /\ statusCode' = [statusCode EXCEPT ![r] = HealthStatus(TRUE)]
          /\ body' = [body EXCEPT ![r] = HealthBody(TRUE)]
          /\ UNCHANGED caught
       \/ /\ \E error \in QueryErrors : TRUE
          /\ statusCode' = [statusCode EXCEPT ![r] = HealthStatus(FALSE)]
          /\ body' = [body EXCEPT ![r] = HealthBody(FALSE)]
          /\ UNCHANGED <<checkedOut, client, caught>>
    /\ headers' = [headers EXCEPT ![r] = HealthHeaders]
    /\ pc' = [pc EXCEPT ![r] = "done"]
    /\ UNCHANGED <<startVars, storeVars, clock, route, requestId, timestamp, callNo,
                   attempt, rollback, dbResult, delays, tries, callIds>>
    /\ UNCHANGED <<lifeVars, reqVars, frontVars>>

\* ------------------------------------------------- remaining dispatcher cases
\* OPTIONS on any path: handleOptions
PreflightOn(r, method, path) ==
    /\ Alive /\ listening /\ pc[r] = "idle"
    /\ Route(method, path) = "options"
    /\ route' = [route EXCEPT ![r] = "options"]
    /\ statusCode' = [statusCode EXCEPT ![r] = 200]
    /\ headers' = [headers EXCEPT ![r] = CorsHeaders]
    /\ body' = [body EXCEPT ![r] = EmptyBody]
    /\ pc' = [pc EXCEPT ![r] = "done"]
    /\ UNCHANGED <<startVars, checkedOut, storeVars, clock, requestId, timestamp,
                   callNo, attempt, attemptVars, dbResult, delays, tries, callIds,
                   lifeVars>>

Preflight(r) ==
    \E method \in Methods, path \in Paths :
        PreflightOn(r, method, path) /\ UNCHANGED <<reqVars, frontVars>>

\* no route matched: 404
NotFoundOn(r, method, path) ==
    /\ Alive /\ listening /\ pc[r] = "idle"
    /\ Route(method, path) = "notfound"
    /\ route' = [route EXCEPT ![r] = "notfound"]
    /\ statusCode' = [statusCode EXCEPT ![r] = 404]
    /\ headers' = [headers EXCEPT ![r] = ErrorHeaders]
    /\ body' = [body EXCEPT ![r] = ErrorBody("Not found")]
    /\ pc' = [pc EXCEPT ![r] = "done"]
    /\ UNCHANGED <<startVars, checkedOut, storeVars, clock, requestId, timestamp,
                   callNo, attempt, attemptVars, dbResult, delays, tries, callIds,
                   lifeVars>>

NotFound(r) ==
    \E method \in Methods, path \in Paths :
        NotFoundOn(r, method, path) /\ UNCHANGED <<reqVars, frontVars>>

\* ------------------------------------- startServer / checkDatabaseConnection
\* const client = await dbPool.connect(); on a rejection the probe returns
\* false and startServer goes on to server.listen()
StartupConnect ==
    /\ Alive
    /\ startPc = "connect"
    /\ \/ /\ PoolHasFree(checkedOut, phase)
          /\ checkedOut' = checkedOut + 1
          /\ startClient' = "held"
          /\ startPc' = "query"
          /\ UNCHANGED listening
       \/ /\ \E error \in ConnectRejections(phase, checkedOut) : TRUE
          /\ startPc' = "done"
          /\ listening' = ListenAfterProbe(FALSE)
          /\ UNCHANGED <<checkedOut, startClient>>
    /\ UNCHANGED <<storeVars, clock, pc, route, requestId, timestamp, callNo, attempt,
                   attemptVars, dbResult, resVars, delays, tries, callIds>>
    /\ UNCHANGED <<lifeVars, reqVars, frontVars>>

\* await client.query('SELECT 1'); client.release(); return true, or the
\* rejection is caught and false returned; then server.listen()
StartupQuery ==
    /\ Alive
    /\ startPc = "query"
    /\ \/ /\ checkedOut' = checkedOut - 1
          /\ startClient' = "released"
          /\ listening' = ListenAfterProbe(TRUE)
       \/ /\ \E error \in QueryErrors : TRUE
          /\ listening' = ListenAfterProbe(FALSE)
          /\ UNCHANGED <<checkedOut, startClient>>
    /\ startPc' = "done"
    /\ UNCHANGED <<storeVars, clock, pc, route, requestId, timestamp, callNo, attempt,
                   attemptVars, dbResult, resVars, delays, tries, callIds>>
    /\ UNCHANGED <<lifeVars, reqVars, frontVars>>

\* ----------------------------------------------------------- other instances
\* Another instance behind the load balancer commits a row of its own; the
\* same UNIQUE constraint applies to its INSERT.
OtherInstanceCommit ==
    /\ \E id \in Ids :
         /\ ~UniqueViolated(id, rows)
         /\ \A q \in Reqs : pending[q] # id
         /\ rows' = rows \cup {Row(id, OTHER_HOSTNAME, 0, "unknown")}
    /\ UNCHANGED <<startVars, checkedOut, pending, clock, pc, route, requestId,
                   timestamp, callNo, attempt, attemptVars, dbResult, resVars,
                   delays, tries, callIds>>
    /\ UNCHANGED <<lifeVars, reqVars, frontVars>>

\* ------------------------------------------------------------------ shutdown
\* process.on('SIGTERM'): server.close() stops the listener at once (its
\* callback is not awaited) and the handler is suspended at dbPool.end()
Sigterm ==
    /\ phase = "running"
    /\ phase' = "closing"
    /\ listening' = FALSE
    /\ UNCHANGED <<startPc, startClient, checkedOut, storeVars, clock, requestVars,
                   fault, reqVars, frontVars>>

\* dbPool.end() resolves as soon as no client is checked out, and
\* process.exit(0) ends the process with whatever is still suspended
PoolEnded ==
    /\ phase = "closing"
    /\ checkedOut = 0
    /\ phase' = "exited"
    /\ UNCHANGED <<startVars, checkedOut, storeVars, clock, requestVars, fault,
                   reqVars, frontVars>>

\* ------------------------------------------------------ dispatcher, observed
\* the createServer callback with req.method and url.pathname kept
Dispatch(r) ==
    \E method \in Methods, path \in Paths :
        /\ \/ PreflightOn(r, method, path)
           \/ HealthStartOn(r, method, path)
           \/ RequestStartOn(r, method, path)
           \/ NotFoundOn(r, method, path)
        /\ reqMethod' = [reqMethod EXCEPT ![r] = method]
        /\ reqPath' = [reqPath EXCEPT ![r] = path]
        /\ UNCHANGED frontVars

\* the response of r is out and the callback has returned: the next request
\* the server accepts starts from fresh locals. A client its probe never
\* released stays checked out of the pool.
NextRequest(r) ==
    /\ Alive /\ pc[r] = "done"
    /\ route[r] \in {"health", "options", "notfound"}
    /\ pc' = [pc EXCEPT ![r] = "idle"]
    /\ route' = [route EXCEPT ![r] = "none"]
    /\ client' = [client EXCEPT ![r] = "null"]
    /\ statusCode' = [statusCode EXCEPT ![r] = 0]
    /\ headers' = [headers EXCEPT ![r] = {}]
    /\ body' = [body EXCEPT ![r] = NoBody]
    /\ fault' = [fault EXCEPT ![r] = "none"]
    /\ UNCHANGED <<startVars, checkedOut, storeVars, clock, requestId, timestamp,
                   callNo, attempt, caught, rollback, dbResult, delays, tries,
                   callIds, phase, reqVars, frontVars>>

\* --------------------------------------------------------------------- faults
\* new URL(req.url, ...) throws on a request target that does not parse; the
\* catch of the callback writes the 500
ParseFault(r) ==
    /\ Alive /\ listening /\ pc[r] = "idle"
    /\ statusCode' = [statusCode EXCEPT ![r] = 500]
    /\ headers' = [headers EXCEPT ![r] = ErrorHeaders]
    /\ body' = [body EXCEPT ![r] = ErrorBody("Internal server error")]
    /\ fault' = [fault EXCEPT ![r] = "caught"]
    /\ pc' = [pc EXCEPT ![r] = "done"]
    /\ UNCHANGED <<startVars, checkedOut, storeVars, clock, route, requestId,
                   timestamp, callNo, attempt, attemptVars, dbResult, delays, tries,
                   callIds, phase, reqVars, frontVars>>

\* await handleHealthCheck(...) or await handleRequest(...) rejects before
\* the handler has written anything; the catch of the callback writes the
\* 500. What the handler held (its client, its open transaction) stays.
HandlerFault(r) ==
    /\ Alive /\ pc[r] \notin {"idle", "done"}
    /\ statusCode' = [statusCode EXCEPT ![r] = 500]
    /\ headers' = [headers EXCEPT ![r] = ErrorHeaders]
    /\ body' = [body EXCEPT ![r] = ErrorBody("Internal server error")]
    /\ fault' = [fault EXCEPT ![r] = "caught"]
    /\ pc' = [pc EXCEPT ![r] = "done"]
    /\ UNCHANGED <<startVars, checkedOut, storeVars, clock, route, requestId,
                   timestamp, callNo, attempt, attemptVars, dbResult, delays, tries,
                   callIds, phase, reqVars, frontVars>>

\* a statement that follows res.writeHead in a branch throws: the catch calls
\* res.writeHead(500) on a response whose head is out, which throws
\* ERR_HTTP_HEADERS_SENT out of the callback. The rejection is unhandled:
\* the process is ended by it, or it is only reported, as the runtime decides.
ResponseFault(r) ==
    /\ Alive /\ pc[r] = "done" /\ fault[r] = "none"
    /\ fault' = [fault EXCEPT ![r] = "uncaught"]
    /\ \E ended \in BOOLEAN : phase' = IF ended THEN "crashed" ELSE phase
    /\ UNCHANGED <<startVars, checkedOut, storeVars, clock, requestVars, reqVars, frontVars>>

\* ------------------------------------------------------------------ frontend
\* invocations of sendRequest that have not reached the end of their finally
InFlight == {c \in Calls : sendPc[c] # "idle"}

\* addRequest(requestData): requests.unshift, and the count of the hostname
\* unless the entry is the one the catch block built
addRequest(hostname) ==
    /\ requests' = <<hostname>> \o requests
    /\ servers' = IF hostname \in Hosts
                  THEN [servers EXCEPT ![hostname] = @ + 1]
                  ELSE servers

\* sendRequest() up to its first await: the button is disabled; an empty URL
\* is answered with an alert, the button enabled and a return, otherwise the
\* invocation is suspended at await fetch(backendUrl). The invocation takes
\* the first free slot, and none starts once the entries to come would take
\* the requests array past MaxLog.
sendRequest(c) ==
    /\ sendPc[c] = "idle"
    /\ \A d \in Calls : d < c => sendPc[d] # "idle"
    /\ Len(requests) + Cardinality(InFlight) < MaxLog
    /\ IF backendUrl = ""
       THEN /\ btnDisabled' = FALSE
            /\ UNCHANGED sendPc
       ELSE /\ btnDisabled' = TRUE
            /\ sendPc' = [sendPc EXCEPT ![c] = "fetch"]
    /\ UNCHANGED <<backendUrl, requests, servers, serverVars>>

\* sendRequestBtn.addEventListener('click', sendRequest): a disabled button
\* fires no click event
ClickSend ==
    /\ ~btnDisabled
    /\ \E c \in Calls : sendRequest(c)

\* backendUrlInput.addEventListener('keypress', ...): Enter in the URL field
\* calls sendRequest(), whatever the state of the button
EnterKey ==
    \E key \in Keys :
        /\ key = "Enter"
        /\ \E c \in Calls : sendRequest(c)

\* the user edits the URL field
TypeUrl ==
    /\ \E value \in UrlValues : backendUrl' = value
    /\ UNCHANGED <<btnDisabled, sendPc, requests, servers, serverVars>>

\* await fetch(...) settles: with an ok response the invocation goes on to
\* await response.json(); a rejection or a status outside 2xx lands in the
\* catch block (addRequest(errorData), alert) and the finally block
FetchSettles(c) ==
    /\ sendPc[c] = "fetch"
    /\ \/ /\ sendPc' = [sendPc EXCEPT ![c] = "json"]
          /\ UNCHANGED <<btnDisabled, requests, servers>>
       \/ /\ addRequest("Error")
          /\ btnDisabled' = FALSE
          /\ sendPc' = [sendPc EXCEPT ![c] = "idle"]
    /\ UNCHANGED <<backendUrl, serverVars>>

\* await response.json() settles: addRequest(data), or the catch block when
\* the body does not parse; then the finally block enables the button
JsonSettles(c) ==
    /\ sendPc[c] = "json"
    /\ \/ \E hostname \in Hosts : addRequest(hostname)
       \/ addRequest("Error")
    /\ btnDisabled' = FALSE
    /\ sendPc' = [sendPc EXCEPT ![c] = "idle"]
    /\ UNCHANGED <<backendUrl, serverVars>>

\* clearLogs() with the confirm accepted
clearLogs ==
    /\ requests' = <<>>
    /\ servers' = [h \in Hosts |-> 0]
    /\ UNCHANGED <<btnDisabled, backendUrl, sendPc, serverVars>>

Next ==
    \/ ClickSend
    \/ EnterKey
    \/ TypeUrl
    \/ \E c \in Calls : FetchSettles(c)
    \/ \E c \in Calls : JsonSettles(c)
    \/ clearLogs
    \/ StartupConnect
    \/ StartupQuery
    \/ OtherInstanceCommit
    \/ \E r \in Reqs : RequestStart(r)
    \/ \E r \in Reqs : Connect(r)
    \/ \E r \in Reqs : Begin(r)
    \/ \E r \in Reqs : Insert(r)
    \/ \E r \in Reqs : Commit(r)
    \/ \E r \in Reqs : Rollback(r)
    \/ \E r \in Reqs : Sleep(r)
    \/ \E r \in Reqs : HealthStart(r)
    \/ \E r \in Reqs : HealthConnect(r)
    \/ \E r \in Reqs : HealthQuery(r)
    \/ \E r \in Reqs : Preflight(r)
    \/ \E r \in Reqs : NotFound(r)
    \/ \E r \in Reqs : NextRequest(r)
    \/ \E r \in Reqs : ParseFault(r)
    \/ \E r \in Reqs : HandlerFault(r)
    \/ \E r \in Reqs : ResponseFault(r)
    \/ Sigterm
    \/ PoolEnded

Spec == Init /\ [][Next]_vars

\* The process once startServer has finished: checkDatabaseConnection
\* returned true (its client is back in the pool) and server.listen() was
\* called. From then on only request handling changes the state.
InitServing ==
    /\ InitFront
    /\ listening = TRUE
    /\ startPc = "done"
    /\ startClient = "released"
    /\ checkedOut = 0
    /\ rows = {}
    /\ pending = [r \in Reqs |-> 0]
    /\ clock = 0
    /\ pc = [r \in Reqs |-> "idle"]
    /\ route = [r \in Reqs |-> "none"]
    /\ requestId = [r \in Reqs |-> 0]
    /\ timestamp = [r \in Reqs |-> 0]
    /\ callNo = [r \in Reqs |-> 0]
    /\ attempt = [r \in Reqs |-> 0]
    /\ client = [r \in Reqs |-> "null"]
    /\ caught = [r \in Reqs |-> NoError]
    /\ rollback = [r \in Reqs |-> "none"]
    /\ dbResult = [r \in Reqs |-> NoResult]
    /\ statusCode = [r \in Reqs |-> 0]
    /\ delays = [r \in Reqs |-> <<>>]
    /\ tries = [r \in Reqs |-> <<>>]
    /\ callIds = [r \in Reqs |-> <<>>]
    /\ headers = [r \in Reqs |-> {}]
    /\ body = [r \in Reqs |-> NoBody]
    /\ phase = "running"
    /\ fault = [r \in Reqs |-> "none"]
    /\ reqMethod = [r \in Reqs |-> "none"]
    /\ reqPath = [r \in Reqs |-> "none"]

NextServing ==
    \/ OtherInstanceCommit
    \/ \E r \in Reqs : RequestStart(r)
    \/ \E r \in Reqs : Connect(r)
    \/ \E r \in Reqs : Begin(r)
    \/ \E r \in Reqs : Insert(r)
    \/ \E r \in Reqs : Commit(r)
    \/ \E r \in Reqs : Rollback(r)
    \/ \E r \in Reqs : Sleep(r)
    \/ \E r \in Reqs : HealthStart(r)
    \/ \E r \in Reqs : HealthConnect(r)
    \/ \E r \in Reqs : HealthQuery(r)
    \/ \E r \in Reqs : Preflight(r)
    \/ \E r \in Reqs : NotFound(r)

SpecServing == InitServing /\ [][NextServing]_vars

\* The process from its construction while it handles the requests of Solo
\* only; the other instances keep writing to the table.
NextSingle ==
    \/ StartupConnect
    \/ StartupQuery
    \/ OtherInstanceCommit
    \/ \E r \in Solo : RequestStart(r)
    \/ \E r \in Solo : Connect(r)
    \/ \E r \in Solo : Begin(r)
    \/ \E r \in Solo : Insert(r)
    \/ \E r \in Solo : Commit(r)
    \/ \E r \in Solo : Rollback(r)
    \/ \E r \in Solo : Sleep(r)
    \/ \E r \in Solo : HealthStart(r)
    \/ \E r \in Solo : HealthConnect(r)
    \/ \E r \in Solo : HealthQuery(r)
    \/ \E r \in Solo : Preflight(r)
    \/ \E r \in Solo : NotFound(r)

SpecSingle == Init /\ [][NextSingle]_vars

\* Startup under the guarantees the pool configuration gives: a connect
\* ends within connectionTimeoutMillis and a statement within
\* statement_timeout, so neither await of the probe stays suspended forever.
SpecStartup ==
    Init /\ [][NextSingle]_vars /\ WF_vars(StartupConnect) /\ WF_vars(StartupQuery)

\* A serving process handling the log-write requests of Solo when the store
\* can also reject an INSERT with an error that passes both tests.
NextCollide ==
    \/ OtherInstanceCommit
    \/ \E r \in Solo : RequestStart(r)
    \/ \E r \in Solo : Connect(r)
    \/ \E r \in Solo : Begin(r)
    \/ \E r \in Solo : Insert(r)
    \/ \E r \in Solo : InsertAmbiguous(r)
    \/ \E r \in Solo : Commit(r)
    \/ \E r \in Solo : Rollback(r)
    \/ \E r \in Solo : Sleep(r)

SpecCollide == InitServing /\ [][NextCollide]_vars

\* A serving process that answers two requests at a time on the branches
\* that write nothing, and in which statements can throw unexpectedly.
NextFaults ==
    \/ \E r \in Reqs : HealthStart(r)
    \/ \E r \in Reqs : HealthConnect(r)
    \/ \E r \in Reqs : HealthQuery(r)
    \/ \E r \in Reqs : Preflight(r)
    \/ \E r \in Reqs : NotFound(r)
    \/ \E r \in Reqs : ParseFault(r)
    \/ \E r \in Reqs : HandlerFault(r)
    \/ \E r \in Reqs : ResponseFault(r)

SpecFaults == InitServing /\ [][NextFaults]_vars

\* The page of the CloudTrace frontend in a browser, with the user clicking,
\* typing and pressing Enter while requests are in flight.
NextFrontend ==
    \/ ClickSend
    \/ EnterKey
    \/ TypeUrl
    \/ \E c \in Calls : FetchSettles(c)
    \/ \E c \in Calls : JsonSettles(c)
    \/ clearLogs

SpecFrontend == InitServing /\ [][NextFrontend]_vars

\* The same process when a termination signal can arrive at any moment.
NextLife ==
    \/ NextSingle
    \/ Sigterm
    \/ PoolEnded

SpecLife == Init /\ [][NextLife]_vars

\* The same process serving one request after another, so that the clients
\* lost by failed probes add up.
NextPool ==
    \/ NextSingle
    \/ \E r \in Solo : NextRequest(r)

SpecPool == Init /\ [][NextPool]_vars

\* A serving process whose pool has one client left: PoolMax - 1 clients
\* were lost to probes whose SELECT 1 was rejected (SpecPool reaches this
\* state). Requests then compete for the last client.
InitLastClient ==
    /\ InitFront
    /\ listening = TRUE
    /\ startPc = "done"
    /\ startClient = "released"
    /\ checkedOut = PoolMax - 1
    /\ rows = {}
    /\ pending = [r \in Reqs |-> 0]
    /\ clock = 0
    /\ pc = [r \in Reqs |-> "idle"]
    /\ route = [r \in Reqs |-> "none"]
    /\ requestId = [r \in Reqs |-> 0]
    /\ timestamp = [r \in Reqs |-> 0]
    /\ callNo = [r \in Reqs |-> 0]
    /\ attempt = [r \in Reqs |-> 0]
    /\ client = [r \in Reqs |-> "null"]
    /\ caught = [r \in Reqs |-> NoError]
    /\ rollback = [r \in Reqs |-> "none"]
    /\ dbResult = [r \in Reqs |-> NoResult]
    /\ statusCode = [r \in Reqs |-> 0]
    /\ delays = [r \in Reqs |-> <<>>]
    /\ tries = [r \in Reqs |-> <<>>]
    /\ callIds = [r \in Reqs |-> <<>>]
    /\ headers = [r \in Reqs |-> {}]
    /\ body = [r \in Reqs |-> NoBody]
    /\ phase = "running"
    /\ fault = [r \in Reqs |-> "none"]
    /\ reqMethod = [r \in Reqs |-> "none"]
    /\ reqPath = [r \in Reqs |-> "none"]

NextContention ==
    \/ \E r \in Reqs : RequestStart(r)
    \/ \E r \in Reqs : Connect(r)
    \/ \E r \in Reqs : Begin(r)
    \/ \E r \in Reqs : Insert(r)
    \/ \E r \in Reqs : Commit(r)
    \/ \E r \in Reqs : Rollback(r)
    \/ \E r \in Reqs : Sleep(r)
    \/ \E r \in Reqs : HealthStart(r)
    \/ \E r \in Reqs : HealthConnect(r)
    \/ \E r \in Reqs : HealthQuery(r)

\* Every await of a handler ends: a connect within connectionTimeoutMillis,
\* a statement within statement_timeout, a backoff timer when it fires.
FairHandlers ==
    \A r \in Reqs :
        /\ WF_vars(Connect(r)) /\ WF_vars(Begin(r)) /\ WF_vars(Insert(r))
        /\ WF_vars(Commit(r)) /\ WF_vars(Rollback(r)) /\ WF_vars(Sleep(r))
        /\ WF_vars(HealthConnect(r)) /\ WF_vars(HealthQuery(r))

SpecContention == InitLastClient /\ [][NextContention]_vars /\ FairHandlers

\* A serving process whose dispatcher keeps the request line of each
\* request, and in which statements can throw unexpectedly.
NextDispatch ==
    \/ \E r \in Solo : Dispatch(r)
    \/ \E r \in Solo : Connect(r)
    \/ \E r \in Solo : Begin(r)
    \/ \E r \in Solo : Insert(r)
    \/ \E r \in Solo : Commit(r)
    \/ \E r \in Solo : Rollback(r)
    \/ \E r \in Solo : Sleep(r)
    \/ \E r \in Solo : HealthConnect(r)
    \/ \E r \in Solo : HealthQuery(r)
    \/ \E r \in Solo : ParseFault(r)
    \/ \E r \in Solo : HandlerFault(r)
    \/ \E r \in Solo : ResponseFault(r)

SpecDispatch == InitServing /\ [][NextDispatch]_vars

\* ================================================================ properties
RECURSIVE SumSeq(_)
SumSeq(seq) == IF seq = <<>> THEN 0 ELSE Head(seq) + SumSeq(Tail(seq))

AllOfKind(seq, kind) == \A i \in 1..Len(seq) : seq[i] = kind

\* the log-write request r has its response
Responded(r) == route[r] = "log" /\ pc[r] = "done"

\* rows of request_logs written by r's current gateway call
RowsOfCall(r) ==
    {row \in rows : /\ row.request_id = requestId[r]
                    /\ row.server_hostname = SERVER_HOSTNAME
                    /\ row.timestamp = timestamp[r]}

\* C1: on the log-write path the response status is 200 whatever the gateway
\* returned; no other status (in particular no 5xx) is ever written.
C1_LogWriteAlways200 ==
    \A r \in Reqs : route[r] = "log" =>
        /\ statusCode[r] \in {0, 200}
        /\ (pc[r] = "done" <=> statusCode[r] = 200)

\* C1 witness: a response was written after the gateway failed for good (here
\* after a collision on both tries and after a pool acquisition failure).
C1_Witness ==
    /\ \E r \in Reqs : /\ Responded(r) /\ statusCode[r] = 200
                       /\ callNo[r] = 2 /\ dbResult[r] = CollisionResult
    /\ \E r \in Reqs : /\ Responded(r) /\ statusCode[r] = 200
                       /\ dbResult[r].error = "UNKNOWN" /\ client[r] = "null"

\* C2: the gateway gives back every client it acquired, exactly once: between
\* attempts and after the call returned the request holds no client, and the
\* pool's count of handed-out clients is the number of clients actually held.
C2_GatewayReleases ==
    /\ \A r \in Reqs : route[r] = "log" =>
          /\ (pc[r] \in {"connect", "sleep", "done"} => client[r] # "held")
          /\ (pc[r] \in {"begin", "insert", "commit", "rollback"} => client[r] = "held")
    /\ checkedOut = Cardinality({r \in Reqs : client[r] = "held"})

\* C2 witness: an attempt whose ROLLBACK itself failed has ended with its
\* client released, once before a retry and once before the response.
C2_Witness ==
    /\ \E r \in Reqs : /\ route[r] = "log" /\ pc[r] = "sleep"
                       /\ rollback[r] = "failed" /\ client[r] = "released"
    /\ \E r \in Reqs : /\ Responded(r) /\ ~dbResult[r].success
                       /\ rollback[r] = "failed" /\ client[r] = "released"

\* C3: a liveness probe that has finished (the startup probe or a /health
\* request) holds no client.
C3_ProbeReleases ==
    /\ (startPc = "done" => startClient # "held")
    /\ \A r \in Reqs : route[r] = "health" /\ pc[r] = "done" => client[r] # "held"

\* C4: a call never makes a 4th attempt, and a call all of whose attempts
\* failed with a transient error has made exactly 3 of them and returned a
\* failure that carries the code of the last error, a transient code, hence
\* neither the collision result nor a permanent error's.
C4_ExhaustedAfterThree ==
    \A r \in Reqs : route[r] = "log" =>
        /\ attempt[r] <= 2 /\ Len(tries[r]) <= 3
        /\ (Len(tries[r]) = 3 /\ AllOfKind(tries[r], "transient") => pc[r] = "done")
        /\ (pc[r] = "done" /\ ~dbResult[r].success /\ AllOfKind(tries[r], "transient")
              => /\ Len(tries[r]) = 3 /\ attempt[r] = 2
                 /\ dbResult[r].error = caught[r].code
                 /\ dbResult[r].error \in TransientCodes
                 /\ dbResult[r] # CollisionResult)

\* C4 witness: a call has returned after three transient failures.
C4_Witness ==
    \E r \in Reqs : /\ Responded(r)
                    /\ tries[r] = <<"transient", "transient", "transient">>

\* C5: a permanent error ends the call at once: it is the last failure of the
\* call, the failure is returned with its code, no delay follows it and no
\* further attempt is started; on the first attempt that makes one attempt.
C5_PermanentNotRetried ==
    \A r \in Reqs : route[r] = "log" =>
        \A i \in 1..Len(tries[r]) : tries[r][i] = "permanent" =>
            /\ i = Len(tries[r])
            /\ pc[r] = "done" /\ ~dbResult[r].success
            /\ dbResult[r] = FailureResult(caught[r])
            /\ attempt[r] = i - 1
            /\ Len(delays[r]) = i - 1

\* C5 witness: a permanent error on the first attempt, and one on a later
\* attempt, have each ended their call.
C5_Witness ==
    /\ \E r \in Reqs : Responded(r) /\ tries[r] = <<"permanent">> /\ attempt[r] = 0
    /\ \E r \in Reqs : Responded(r) /\ tries[r] = <<"transient", "permanent">>

\* C6: after a collision on the first write the handler calls the gateway
\* exactly once more, and with an identifier that differs from the first.
C6_RegeneratedIdDiffers ==
    \A r \in Reqs : route[r] = "log" =>
        /\ Len(callIds[r]) = callNo[r] /\ callNo[r] <= 2
        /\ (callNo[r] = 2 => callIds[r][2] # callIds[r][1])

C8_ThirdAttemptSucceeds ==
    \A r \in Reqs :
        Responded(r) /\ attempt[r] = 2 /\ tries[r] = <<"transient", "transient">>
            => /\ dbResult[r] = SuccessResult
               /\ Cardinality(RowsOfCall(r)) = 1
               /\ SumSeq(delays[r]) >= 300

\* C8 witness: such a call has returned.
C8_Witness ==
    \E r \in Reqs : /\ Responded(r) /\ attempt[r] = 2 /\ dbResult[r].success
                    /\ tries[r] = <<"transient", "transient">>

\* C9: after a call has failed with transient errors on all 3 attempts the
\* store holds no row of that call.
C9_NoRowAfterExhaustedRetries ==
    \A r \in Reqs :
        /\ Responded(r) /\ ~dbResult[r].success
        /\ tries[r] = <<"transient", "transient", "transient">>
        => RowsOfCall(r) = {}

\* C10: no two committed rows share a request_id.
C10_RequestIdUnique ==
    \A a \in rows : \A b \in rows : a.request_id = b.request_id => a = b

\* C10 witness: two requests of this process generated the same identifier,
\* one committed its row and the INSERT of the other was rejected.
C10_Witness ==
    \E r \in Reqs : \E q \in Reqs \ {r} :
        /\ route[r] = "log" /\ route[q] = "log"
        /\ callIds[r][1] = callIds[q][1]
        /\ Responded(r) /\ dbResult[r].success /\ callNo[r] = 1
        /\ RowsOfCall(r) # {}
        /\ callNo[q] = 2

\* C11: at every moment at most 10 clients of the pool are checked out,
\* however the log-write and health requests of the process interleave.
C11_PoolNeverOverMax == checkedOut \in 0..PoolMax

\* C11 witness: every client is out, the last one held by a health probe,
\* while a log-write request is suspended at dbPool.connect().
C11_Witness ==
    /\ checkedOut = PoolMax
    /\ \E r \in Reqs : \E q \in Reqs \ {r} :
         /\ route[r] = "health" /\ client[r] = "held" /\ pc[r] = "hquery"
         /\ route[q] = "log" /\ pc[q] = "connect"

\* C12: a health request is answered 200, healthy, connected exactly when
\* its probe acquired a client, ran the query and released the client; it is
\* answered 503, unhealthy, disconnected when the acquisition or the query
\* failed, and that failure never reaches the catch of the dispatcher.
C12_HealthStatusFollowsProbe ==
    \A r \in Reqs :
        route[r] = "health" /\ pc[r] = "done"
        => /\ fault[r] = "none"
           /\ IF client[r] = "released"
              THEN /\ statusCode[r] = 200
                   /\ body[r].status = "healthy"
                   /\ body[r].database = "connected"
              ELSE /\ statusCode[r] = 503
                   /\ body[r].status = "unhealthy"
                   /\ body[r].database = "disconnected"

\* C12 witness: one probe succeeded, another lost its query after the
\* acquisition, and both were answered.
C12_Witness ==
    \E r \in Reqs : \E q \in Reqs \ {r} :
        /\ route[r] = "health" /\ pc[r] = "done" /\ client[r] = "released"
        /\ route[q] = "health" /\ pc[q] = "done" /\ client[q] = "held"
        /\ statusCode[q] = 503

\* C13: after a termination signal the pool is closed and the process
\* exits only once every in-flight handler has completed: in a process that
\* has exited no request is left suspended short of its response.
C13_ExitAfterInFlightHandlers ==
    phase = "exited" => \A r \in Reqs : pc[r] \in {"idle", "done"}

\* C14: startup attempts its probe once, and the server is listening from
\* the moment the probe has ended, whatever the probe returned: the probe
\* is never run again, a failed probe does not keep the server from
\* listening, and listening eventually starts.
C14_ListensAfterOneProbe ==
    /\ [](listening <=> startPc = "done")
    /\ [][startPc = "done" => startPc' = "done"]_vars
    /\ <>listening

\* C14 witness: the probe was rejected at its connect, the server listens
\* and has accepted a request.
C14_Witness ==
    /\ listening /\ startPc = "done" /\ startClient = "null"
    /\ \E r \in Reqs : pc[r] # "idle"

\* C15, as stated: every result the gateway hands to the log-write handler
\* is terminal, so the response is written as soon as there is a result.
C15_OnlyTerminalResults ==
    \A r \in Reqs :
        route[r] = "log" /\ dbResult[r] # NoResult => pc[r] = "done"

\* C15, amended: the gateway resolves the transient retries itself (a result
\* with a transient code is handed over only after the last attempt); the
\* one result it hands over that still has to be retried is the collision
\* of the first call, which the handler answers with its second call.
C15_OnlyCollisionLeftToHandler ==
    \A r \in Reqs :
        route[r] = "log" /\ dbResult[r] # NoResult
        => /\ pc[r] # "done" => dbResult[r] = CollisionResult /\ callNo[r] = 2
           /\ pc[r] = "done" /\ dbResult[r].error \in TransientCodes
                => attempt[r] = Retries - 1 /\ Len(tries[r]) = Retries

\* C15 witness: the handler holds the collision of its first call while its
\* second call is in its transaction.
C15_Witness ==
    \E r \in Reqs :
        /\ route[r] = "log" /\ callNo[r] = 2 /\ pc[r] = "commit"
        /\ dbResult[r] = CollisionResult

\* C16: a log-write request that finds every client of the pool checked
\* out waits at the acquisition and is eventually answered, with its row
\* committed once a client was free for it or with a failure once the wait
\* timed out; no such request waits forever or goes without a response.
C16_WaitingRequestsAnswered ==
    /\ \A r \in Reqs :
          (route[r] = "log" /\ pc[r] = "connect" /\ checkedOut = PoolMax)
              ~> Responded(r)
    /\ [](\A r \in Reqs :
            Responded(r) => /\ statusCode[r] = 200
                            /\ dbResult[r].success => RowsOfCall(r) # {}
                            /\ ~dbResult[r].success => dbResult[r].error # "null")

\* C16 witness: a request never got a client because the pool stayed
\* exhausted, its acquisition timed out and it was answered with the failure.
C16_Witness ==
    \E r \in Reqs :
        /\ Responded(r) /\ checkedOut = PoolMax
        /\ client[r] = "null" /\ tries[r] = <<"permanent">>
        /\ dbResult[r] = FailureResult(Err("", FALSE))

\* C17: an OPTIONS request, whatever path its target parsed into, is answered 200 with an
\* empty body and the three Access-Control-Allow headers, by the preflight
\* branch and no other, and answering it takes no client from the pool and
\* changes nothing in the store.
C17_OptionsAnyPath ==
    /\ [](\A r \in Reqs :
            reqMethod[r] = "OPTIONS"
            => /\ route[r] = "options" /\ pc[r] = "done"
               /\ statusCode[r] = 200
               /\ body[r] = [kind |-> "empty"]
               /\ {"Access-Control-Allow-Origin", "Access-Control-Allow-Methods",
                   "Access-Control-Allow-Headers"} \subseteq headers[r]
               /\ client[r] = "null" /\ callNo[r] = 0 /\ pending[r] = 0)
    /\ [][\A r \in Reqs :
            reqMethod[r] # "OPTIONS" /\ reqMethod'[r] = "OPTIONS"
            => UNCHANGED <<checkedOut, rows, pending>>]_vars

\* C17 witness: OPTIONS /health has been answered.
C17_Witness ==
    \E r \in Reqs :
        /\ reqMethod[r] = "OPTIONS" /\ reqPath[r] = "/health"
        /\ pc[r] = "done" /\ statusCode[r] = 200

C19_FaultAnswered500 ==
    \A r \in Reqs :
        fault[r] # "none"
        => /\ statusCode[r] = 500
           /\ body[r] = [kind |-> "json", error |-> "Internal server error"]
           /\ phase # "crashed"

\* C20: every step of the system, a log write, a health probe, startup or
\* shutdown, leaves each committed row in the table exactly as it was: the
\* set of rows only grows.
C20_RowsOnlyGrow == [][rows \subseteq rows']_vars

\* C20 witness: a row committed by an attempt whose COMMIT lost its
\* acknowledgement is still in the table after the ROLLBACK, the later
\* attempts and the exit of the process.
C20_Witness ==
    /\ phase = "exited"
    /\ \E r \in Reqs : RowsOfCall(r) # {} /\ attempt[r] > 0

\* C21: the body of a log-write response says db_status success exactly
\* when the last gateway call of the request returned success and failed
\* otherwise, and it carries db_error exactly when it says failed.
C21_BodyReportsLastCall ==
    \A r \in Reqs :
        Responded(r)
        => /\ body[r].db_status \in {"success", "failed"}
           /\ body[r].db_status = "success" <=> dbResult[r].success
           /\ body[r].db_error = "present" <=> body[r].db_status = "failed"

\* C21 witness: a first call that collided, a second call that succeeded and
\* a response reporting success, beside a response reporting a failure.
C21_Witness ==
    \E r \in Reqs : \E q \in Reqs \ {r} :
        /\ Responded(r) /\ callNo[r] = 2 /\ body[r].db_status = "success"
        /\ Responded(q) /\ body[q].db_status = "failed"
        /\ body[q].db_error = "present"

\* C22: writeRequestToDatabase never throws to handleRequest: whichever of
\* the acquisition, BEGIN, INSERT, COMMIT or ROLLBACK failed, the call ends
\* in a returned result (success, collision, or a failure with a code), and
\* the request is answered by handleRequest, never by the catch of the
\* dispatcher.
C22_GatewayNeverRaises ==
    \A r \in Reqs :
        route[r] = "log"
        => /\ fault[r] = "none"
           /\ statusCode[r] # 500
           /\ pc[r] = "done"
              => /\ statusCode[r] = 200
                 /\ \/ dbResult[r] = SuccessResult
                    \/ dbResult[r] = CollisionResult
                    \/ /\ ~dbResult[r].success
                       /\ dbResult[r].error \notin {"null", "pending", ""}

\* C22 witness: the COMMIT was rejected, the ROLLBACK after it was rejected
\* too, and the call still returned a failure with its code.
C22_Witness ==
    \E r \in Reqs :
        /\ Responded(r) /\ rollback[r] = "failed"
        /\ ~dbResult[r].success /\ dbResult[r].error = "57014"

\* C23: the step in which the first call returns its collision is the step
\* in which the second call is entered at its acquisition: no backoff timer
\* is set between the two, and in the second call a timer is set only after
\* an attempt of that call has failed.
C23_NoBackoffBeforeCollisionRetry ==
    /\ [][\A r \in Reqs :
            callNo[r] = 1 /\ callNo'[r] = 2
            => /\ dbResult'[r] = CollisionResult
               /\ pc'[r] = "connect" /\ attempt'[r] = 0 /\ delays'[r] = <<>>]_vars
    /\ [](\A r \in Reqs :
            callNo[r] = 2 /\ pc[r] = "sleep"
            => /\ Len(tries[r]) = attempt[r] + 1
               /\ Len(delays[r]) = Len(tries[r]))

\* C23 witness: the second call has just been entered after the collision,
\* with no delay slept and no attempt failed yet.
C23_Witness ==
    \E r \in Reqs :
        /\ callNo[r] = 2 /\ pc[r] = "connect" /\ attempt[r] = 0
        /\ delays[r] = <<>> /\ tries[r] = <<>>
        /\ dbResult[r] = CollisionResult /\ Len(callIds[r]) = 2

\* rows of request_logs committed by any attempt of request r: this instance
\* wrote them with the timestamp captured when r was received
RowsOfRequest(r) ==
    {row \in rows : /\ route[r] = "log"
                    /\ row.server_hostname = SERVER_HOSTNAME
                    /\ row.timestamp = timestamp[r]}

\* C24: over all transient retries and the collision retry of one log-write
\* request, at most one row of that request is committed to the store, also
\* when a COMMIT was applied with its acknowledgement lost and the retry then
\* collides with the request's own row.
C24_AtMostOneRowPerRequest ==
    \A r \in Reqs : Cardinality(RowsOfRequest(r)) <= 1

\* C25: a log-write response that reports db_status "success" names a
\* committed row: the store holds a row whose request_id is the response's
\* request_id (the regenerated one after a collision retry) and whose
\* server_hostname, timestamp and client_ip are those of the response.
C25_SuccessNamesCommittedRow ==
    \A r \in Reqs :
        Responded(r) /\ body[r].db_status = "success"
        => /\ body[r].request_id = requestId[r]
           /\ \E row \in rows :
                /\ row.request_id = body[r].request_id
                /\ row.server_hostname = body[r].server_hostname
                /\ toISOString(row.timestamp) = body[r].timestamp
                /\ row.client_ip = body[r].client_ip

\* C25 witness: a success reported under the regenerated identifier, next to
\* a success of a first call sent through a proxy.
C25_Witness ==
    \E r \in Reqs : \E q \in Reqs \ {r} :
        /\ Responded(r) /\ body[r].db_status = "success"
        /\ callNo[r] = 2 /\ body[r].request_id # Head(callIds[r])
        /\ Responded(q) /\ body[q].db_status = "success" /\ callNo[q] = 1
        /\ body[r].client_ip # body[q].client_ip

\* the error the catch block of r holds passes the duplicate-key test
CaughtDuplicate(r) == caught[r].code = "23505" \/ caught[r].dup

\* C26: a duplicate-key error ends the gateway call with the collision
\* outcome in the step that classifies it, on any attempt and whatever its
\* code, and no backoff delay is added; a request makes at most two calls
\* with at most two identifiers, and a collision of the second call is
\* answered with db_status "failed".
C26_CollisionEndsCallAtOnce ==
    /\ [][\A r \in Reqs :
            pc[r] = "rollback" /\ CaughtDuplicate(r) /\ pc'[r] # "rollback"
            => /\ dbResult'[r] = CollisionResult
               /\ pc'[r] \in {"connect", "done"}
               /\ delays'[r] = IF callNo[r] = 1 THEN <<>> ELSE delays[r]
               /\ callNo'[r] = 2]_vars
    /\ [](\A r \in Reqs :
            /\ callNo[r] <= 2 /\ Len(callIds[r]) <= 2
            /\ Responded(r) /\ dbResult[r] = CollisionResult
               => /\ callNo[r] = 2 /\ Len(callIds[r]) = 2
                  /\ body[r].db_status = "failed")

\* C26 witness: the second call collided on its second attempt, after one
\* transient retry and with one attempt of the budget left, on an error that
\* carries a transient code; the request was answered with "failed".
C26_Witness ==
    \E r \in Reqs :
        /\ Responded(r) /\ callNo[r] = 2 /\ dbResult[r] = CollisionResult
        /\ tries[r] = <<"transient", "collision">> /\ attempt[r] = 1
        /\ caught[r] \in AmbiguousErrors /\ Len(delays[r]) = 1
        /\ body[r].db_status = "failed"

\* C27: handling one log-write request is bounded and ends: it makes at most
\* two gateway calls with at most two identifiers, each call makes at most
\* Retries attempts and sleeps at most Retries - 1 backoff delays, and when
\* every acquisition, query and timer ends, the response is sent.
C27_BoundedWorkThenResponse ==
    /\ [](\A r \in Reqs :
            /\ callNo[r] <= 2 /\ Len(callIds[r]) <= 2
            /\ attempt[r] <= Retries - 1 /\ Len(tries[r]) <= Retries
            /\ Len(delays[r]) <= Retries - 1
            /\ callNo[r] * Retries <= 6)
    /\ \A r \in Reqs : (route[r] = "log" /\ pc[r] # "done") ~> Responded(r)

\* C27 witness: a request answered after the most work a second call can
\* do: three attempts and two backoff sleeps after the collision retry.
C27_Witness ==
    \E r \in Reqs :
        /\ Responded(r) /\ callNo[r] = 2 /\ Len(callIds[r]) = 2
        /\ attempt[r] = Retries - 1 /\ Len(tries[r]) = Retries
        /\ Len(delays[r]) = Retries - 1

\* C28: every request the dispatcher received gets its response: a handler
\* that is done has written one status line (200, 404, 500 or 503), and
\* the process never ends while a received request has none.
C28_EveryRequestAnswered ==
    \A r \in Reqs :
        /\ pc[r] = "done" => statusCode[r] \in {200, 404, 500, 503}
        /\ pc[r] # "idle" => Alive \/ statusCode[r] # 0

\* the identifiers request r has used so far
IdsOfRequest(r) == {callIds[r][i] : i \in 1..Len(callIds[r])}

\* C29: every attempt of one log-write request writes with the timestamp, the
\* client address and the server hostname captured when the request was
\* received: each row this instance committed carries those of the request
\* that wrote it under one of its identifiers, the timestamp of a request
\* never changes, and its identifier changes only in the step that returns
\* the first call's collision.
C29_AttemptsShareCapturedFields ==
    /\ [](\A row \in rows :
            row.server_hostname = SERVER_HOSTNAME
            => \E r \in Reqs :
                 /\ route[r] = "log"
                 /\ row.timestamp = timestamp[r]
                 /\ row.client_ip = clientIp(r)
                 /\ row.request_id \in IdsOfRequest(r))
    /\ [][\A r \in Reqs :
            route[r] = "log"
            => /\ timestamp'[r] = timestamp[r]
               /\ route'[r] = "log"
               /\ requestId'[r] # requestId[r]
                  => /\ pc[r] = "rollback" /\ callNo[r] = 1 /\ callNo'[r] = 2
                     /\ dbResult'[r] = CollisionResult]_vars

\* C29 witness: a row committed by the second attempt of the second call,
\* under an identifier other than the first one.
C29_Witness ==
    \E r \in Reqs :
        /\ Responded(r) /\ dbResult[r].success /\ callNo[r] = 2 /\ attempt[r] = 1
        /\ requestId[r] # Head(callIds[r])
        /\ \E row \in rows : /\ row.request_id = requestId[r]
                              /\ row.server_hostname = SERVER_HOSTNAME
                              /\ row.timestamp = timestamp[r]
                              /\ row.client_ip = clientIp(r)

\* C30: at most one invocation of sendRequest is between its start and the
\* end of its finally block at any time, and the send button is enabled
\* exactly when none is.
C30_OneRequestInFlight ==
    /\ Cardinality(InFlight) <= 1
    /\ btnDisabled <=> InFlight # {}

====
